---- MODULE Spec2Model ----
(***************************************************************************)
(* The in-memory clinical-data repository of MediFlow AI (DatabaseService) *)
(* as a state machine: one variable per entity sequence of this.db, one    *)
(* action per facade method, the wall clock as a variable.                 *)
(*                                                                         *)
(* JavaScript values are tagged tuples, so that 1 and '1' differ as they   *)
(* do under ===; a string is the sequence of its characters; an object is  *)
(* a function from its field names, a missing field reads as undefined.    *)
(***************************************************************************)
EXTENDS Integers, Sequences, FiniteSets, TLC

\* ------------------------------------------------------------ bounds ----
\* Mutating calls explored per behaviour (each one appends an audit entry).
MaxAudit == 2
\* The same, in the specification that also explores the read calls.
MaxAuditFacade == 1
\* Clock ticks explored (Date.now() runs from 0 to MaxClock).
MaxClock == 1

\* --------------------------------------------------------- JS values ----
Undefined == <<"undefined">>
Num(n) == <<"number", n>>
Str(s) == <<"string", s>>
Dt(t) == <<"date", t>>
Obj(o) == <<"object", o>>
Bool(b) == <<"boolean", b>>
Arr(a) == <<"array", a>>
Err(m) == <<"error", m>>
Null == <<"null">>

IsStr(v) == v[1] = "string"
IsObj(v) == v[1] = "object"

\* The empty object {}.
EmptyObj == << >>

\* o.f : a missing property reads as undefined.
Get(o, f) == IF f \in DOMAIN o THEN o[f] ELSE Undefined

\* { ...a, ...b } : b's fields overwrite a's, all others are kept.
Spread(a, b) ==
  [f \in DOMAIN a \cup DOMAIN b |-> IF f \in DOMAIN b THEN b[f] ELSE a[f]]

\* The fields an argument contributes to an object spread: spreading
\* undefined contributes nothing and does not throw.
Fields(arg) == IF IsObj(arg) THEN arg[2] ELSE EmptyObj

\* JavaScript truthiness, as used by `x || default`.
Truthy(v) ==
  CASE v[1] = "undefined" -> FALSE
    [] v[1] = "string" -> v[2] # << >>
    [] v[1] = "number" -> v[2] # 0
    [] v[1] = "boolean" -> v[2]
    [] OTHER -> TRUE

\* a || b
OrElse(a, b) == IF Truthy(a) THEN a ELSE b

Digit == <<"0", "1", "2", "3", "4", "5", "6", "7", "8", "9">>

\* The decimal numeral of a natural number.
RECURSIVE Digits(_)
Digits(n) ==
  IF n < 10 THEN <<Digit[n + 1]>>
  ELSE Digits(n \div 10) \o <<Digit[(n % 10) + 1]>>

\* String(v)
String(v) ==
  CASE v[1] = "number" -> Str(Digits(v[2]))
    [] v[1] = "string" -> v
    [] OTHER -> Str(<<"u", "n", "d", "e", "f", "i", "n", "e", "d">>)

\* String.prototype.toLowerCase, on the characters the model uses.
LowerChar(c) ==
  CASE c = "A" -> "a" [] c = "C" -> "c" [] c = "E" -> "e" [] c = "J" -> "j"
    [] c = "L" -> "l" [] c = "M" -> "m" [] c = "P" -> "p" [] c = "S" -> "s"
    [] OTHER -> c

toLowerCase(s) == [i \in 1..Len(s) |-> LowerChar(s[i])]

\* String.prototype.includes
includes(s, sub) ==
  \E i \in 0..(Len(s) - Len(sub)) : SubSeq(s, i + 1, i + Len(sub)) = sub

\* Array.prototype.filter
Filter(seq, Keep(_)) ==
  LET F[i \in 0..Len(seq)] ==
        IF i = 0 THEN << >>
        ELSE IF Keep(seq[i]) THEN Append(F[i - 1], seq[i]) ELSE F[i - 1]
  IN F[Len(seq)]

\* Array.prototype.findIndex, 1-based; 0 stands for JavaScript's -1.
findIndex(seq, Test(_)) ==
  IF \E i \in 1..Len(seq) : Test(seq[i])
  THEN CHOOSE i \in 1..Len(seq) :
         Test(seq[i]) /\ \A j \in 1..(i - 1) : ~Test(seq[j])
  ELSE 0

\* Array.prototype.splice(index, 1) at a 1-based index.
SpliceOne(seq, i) == SubSeq(seq, 1, i - 1) \o SubSeq(seq, i + 1, Len(seq))

ReplaceAt(seq, i, r) == [seq EXCEPT ![i] = r]

\* ------------------------------------------------------ string literals ----
sActive == Str(<<"a", "c", "t", "i", "v", "e">>)
sInactive == Str(<<"i", "n", "a", "c", "t", "i", "v", "e">>)
sDeceased == Str(<<"d", "e", "c", "e", "a", "s", "e", "d">>)
sDraft == Str(<<"d", "r", "a", "f", "t">>)
sFinal == Str(<<"f", "i", "n", "a", "l">>)
sPending == Str(<<"p", "e", "n", "d", "i", "n", "g">>)
sCompleted == Str(<<"c", "o", "m", "p", "l", "e", "t", "e", "d">>)
sScheduled == Str(<<"s", "c", "h", "e", "d", "u", "l", "e", "d">>)
sSystem == Str(<<"s", "y", "s", "t", "e", "m">>)
sCancelled == Str(<<"c", "a", "n", "c", "e", "l", "l", "e", "d">>)

P20250001 == Str(<<"P", "2", "0", "2", "5", "0", "0", "0", "1">>)
P20250002 == Str(<<"P", "2", "0", "2", "5", "0", "0", "0", "2">>)
P20250003 == Str(<<"P", "2", "0", "2", "5", "0", "0", "0", "3">>)

\* --------------------------------------------------------------- state ----
VARIABLES
  patients, allergies, chronicConditions, clinicalNotes, workflows,
  tasks, appointments, referrals, auditLog,   \* this.db
  now,                                        \* the wall clock, Date.now()
  last,                                       \* the last facade call and its result
  patient                                     \* usePatient: the hook's patient state

store == <<patients, allergies, chronicConditions, clinicalNotes, workflows,
           tasks, appointments, referrals>>
vars == <<patients, allergies, chronicConditions, clinicalNotes, workflows,
          tasks, appointments, referrals, auditLog, now, last, patient>>

\* The constructor's seed data.  Fields no facade method reads (date of
\* birth, gender, blood type, phone, emergency contact, insurance, the seed
\* createdAt, allergen, reaction, severity, condition, diagnosis date, the
\* workflow description, steps and checklist items) are left out.
SeedPatients == <<
  [id |-> P20250002, firstName |-> Str(<<"J", "a", "m", "e", "s">>),
   lastName |-> Str(<<"M", "a", "r", "t", "i", "n", "e", "z">>),
   email |-> Str(<<"j", "m", "@", "e">>), status |-> sActive],
  [id |-> P20250003, firstName |-> Str(<<"E", "m", "i", "l", "y">>),
   lastName |-> Str(<<"C", "h", "e", "n">>),
   email |-> Str(<<"e", "c", "@", "e">>), status |-> sActive],
  [id |-> P20250001, firstName |-> Str(<<"S", "a", "r", "a", "h">>),
   lastName |-> Str(<<"J", "o", "h", "n", "s", "o", "n">>),
   email |-> Str(<<"s", "j", "@", "e">>), status |-> sActive] >>

SeedAllergies == <<
  [id |-> Num(1), patientId |-> P20250002, status |-> sActive],
  [id |-> Num(2), patientId |-> P20250001, status |-> sActive],
  [id |-> Num(3), patientId |-> P20250001, status |-> sActive] >>

SeedChronicConditions == <<
  [id |-> Num(1), patientId |-> P20250002, status |-> sActive],
  [id |-> Num(2), patientId |-> P20250002, status |-> sActive] >>

SeedWorkflows == <<
  [id |-> Num(1), category |-> "emergency", usageCount |-> 156],
  [id |-> Num(2), category |-> "examination", usageCount |-> 89],
  [id |-> Num(3), category |-> "intake", usageCount |-> 45] >>

\* ------------------------------------------------------ call results ----
\* What a call hands back: a promise resolved with a value (an object, an
\* array, undefined), a promise rejected with an Error, or an exception.
Resolve(v) == [outcome |-> "resolved", value |-> v]
Reject(msg) == [outcome |-> "rejected", value |-> Err(msg)]
\* A synchronous exception raised to the caller (a TypeError).
Throw == [outcome |-> "threw", value |-> Err("TypeError")]

Call(op, args, res) ==
  [op |-> op, args |-> args, outcome |-> res.outcome, value |-> res.value]

Init ==
  /\ patients = SeedPatients
  /\ allergies = SeedAllergies
  /\ chronicConditions = SeedChronicConditions
  /\ clinicalNotes = << >>
  /\ workflows = SeedWorkflows
  /\ tasks = << >>
  /\ appointments = << >>
  /\ referrals = << >>
  /\ auditLog = << >>
  /\ now = 0
  /\ last = Call("constructor", << >>, Resolve(Undefined))
  /\ patient = Null

\* Time passes between facade calls; the clock never goes backwards.
Tick ==
  /\ now < MaxClock
  /\ now' = now + 1
  /\ UNCHANGED <<store, auditLog, last>>

\* ------------------------------------------------------------- audit ----
\* logAudit with the entity id stored as it was passed, not as a string.
logAuditUnconverted(log, entityType, entityId, action, userId, t) ==
  Append(log, [id |-> Num(Len(log) + 1),
               entityType |-> entityType,
               entityId |-> entityId,
               action |-> action,
               userId |-> userId,
               timestamp |-> Dt(t)])

\* logAudit putting the new entry first (unshift in place of push).
logAuditUnshift(log, entityType, entityId, action, userId, t) ==
  <<[id |-> Num(Len(log) + 1),
     entityType |-> entityType,
     entityId |-> String(entityId),
     action |-> action,
     userId |-> userId,
     timestamp |-> Dt(t)]>> \o log

\* logAudit with the acting user fixed to 'system'.
logAuditAsSystem(log, entityType, entityId, action, userId, t) ==
  Append(log, [id |-> Num(Len(log) + 1),
               entityType |-> entityType,
               entityId |-> String(entityId),
               action |-> action,
               userId |-> sSystem,
               timestamp |-> Dt(t)])

\* logAudit(entityType, entityId, action, userId): the log after the append.
logAudit(log, entityType, entityId, action, userId, t) ==
  Append(log, [id |-> Num(Len(log) + 1),
               entityType |-> entityType,
               entityId |-> String(entityId),
               action |-> action,
               userId |-> userId,
               timestamp |-> Dt(t)])

\* ------------------------------------------------------------ inputs ----
\* An identifier no operation of the model ever assigns.
NoSuchPatient == Str(<<"X">>)

\* The identifier createPatient derives from the clock value t.
TimeId(t) == Str(<<"P">> \o Digits(t))

PatientIdArgs == {P20250001, TimeId(0), NoSuchPatient}

sAda == Str(<<"A", "d", "a">>)
sLovelace == Str(<<"L", "o", "v", "e", "l", "a", "c", "e">>)

\* Records handed to createPatient: no argument at all, a record without an
\* email, and a record that carries an id and a status of its own.
PatientInputs ==
  { Undefined,
    Obj([firstName |-> sAda, lastName |-> sLovelace]),
    Obj([id |-> P20250001, firstName |-> sAda, lastName |-> sLovelace,
         email |-> Str(<<"a", "@", "e">>), status |-> sInactive]) }

PatientUpdates ==
  { Obj([status |-> sInactive, email |-> Str(<<"n", "@", "e">>)]),
    Obj([status |-> sDeceased, updatedAt |-> Dt(0)]),
    Obj([id |-> P20250002]) }

\* lookup without the not-found case: a miss lands on the last record, as
\* splice(-1, 1) does.
lookupOrLast(seq, id) ==
  IF \E i \in 1..Len(seq) : Get(seq[i], "id") = id
  THEN findIndex(seq, LAMBDA r : Get(r, "id") = id)
  ELSE Len(seq)

\* The index of the first record of seq whose id is (===) id, 0 when none:
\* seq.findIndex(r => r.id === id).
lookup(seq, id) == findIndex(seq, LAMBDA r : Get(r, "id") = id)

\* ----------------------------------------------------------- patients ----
\* getAllPatients(): a copy of the array.
getAllPatientsResult == Resolve(Arr(patients))

getAllPatients ==
  /\ last' = Call("getAllPatients", << >>, getAllPatientsResult)
  /\ UNCHANGED <<store, auditLog, now>>

\* The records of seq whose patientId is (===) patientId.
byPatient(seq, patientId) ==
  Filter(seq, LAMBDA r : Get(r, "patientId") = patientId)

\* getPatientById with the whole dependent sequences attached, unfiltered.
getPatientByIdUnfiltered(patientId) ==
  LET index == lookup(patients, patientId) IN
  IF index = 0 THEN Reject("Patient not found")
  ELSE Resolve(Obj(Spread(patients[index],
         [allergies |-> allergies,
          chronicConditions |-> chronicConditions,
          clinicalNotes |-> clinicalNotes,
          tasks |-> tasks,
          appointments |-> appointments,
          referrals |-> referrals])))

\* getPatientById(patientId)
getPatientByIdResult(patientId) ==
  LET index == lookup(patients, patientId) IN
  IF index = 0 THEN Reject("Patient not found")
  ELSE Resolve(Obj(Spread(patients[index],
         [allergies |-> byPatient(allergies, patientId),
          chronicConditions |-> byPatient(chronicConditions, patientId),
          clinicalNotes |-> byPatient(clinicalNotes, patientId),
          tasks |-> byPatient(tasks, patientId),
          appointments |-> byPatient(appointments, patientId),
          referrals |-> byPatient(referrals, patientId)])))

\* getPatientById leaving a READ entry in the audit log.
getPatientByIdAudited ==
  \E patientId \in PatientIdArgs :
    /\ last' = Call("getPatientById", <<patientId>>, getPatientByIdResult(patientId))
    /\ auditLog' = logAudit(auditLog, "Patient", patientId, "READ", sSystem, now)
    /\ UNCHANGED <<store, now>>

getPatientById ==
  \E patientId \in PatientIdArgs :
    /\ last' = Call("getPatientById", <<patientId>>, getPatientByIdResult(patientId))
    /\ UNCHANGED <<store, auditLog, now>>

\* The object literal of createPatient, built at clock value t.
newPatient(patientData, t) ==
  Spread(Spread([id |-> TimeId(t)], Fields(patientData)),
         [status |-> sActive, createdAt |-> Dt(t), updatedAt |-> Dt(t)])

createPatient ==
  \E patientData \in PatientInputs :
    LET np == newPatient(patientData, now) IN
    /\ patients' = Append(patients, np)
    /\ auditLog' = logAudit(auditLog, "Patient", np.id, "CREATE", sSystem, now)
    /\ last' = Call("createPatient", <<patientData>>, Resolve(Obj(np)))
    /\ UNCHANGED <<allergies, chronicConditions, clinicalNotes, workflows,
                   tasks, appointments, referrals, now>>

\* { ...record, ...updates, updatedAt: new Date() }
\* The merge with the spread operands swapped: stored fields win.
mergeKeepingStored(record, updates, t) ==
  Spread(Spread(Fields(updates), record), [updatedAt |-> Dt(t)])

mergeUpdate(record, updates, t) ==
  Spread(Spread(record, Fields(updates)), [updatedAt |-> Dt(t)])

updatePatient ==
  \E patientId \in PatientIdArgs, updates \in PatientUpdates :
    LET index == lookup(patients, patientId) IN
    IF index = 0
    THEN /\ last' = Call("updatePatient", <<patientId, updates>>,
                         Reject("Patient not found"))
         /\ UNCHANGED <<store, auditLog, now>>
    ELSE LET merged == mergeUpdate(patients[index], updates, now) IN
         /\ patients' = ReplaceAt(patients, index, merged)
         /\ auditLog' = logAudit(auditLog, "Patient", patientId, "UPDATE", sSystem, now)
         /\ last' = Call("updatePatient", <<patientId, updates>>, Resolve(Obj(merged)))
         /\ UNCHANGED <<allergies, chronicConditions, clinicalNotes, workflows,
                        tasks, appointments, referrals, now>>

\* The cascade filter of deletePatient: what is left of seq.
cascade(seq, patientId) ==
  Filter(seq, LAMBDA r : Get(r, "patientId") # patientId)

deletePatient ==
  \E patientId \in PatientIdArgs :
    LET index == lookup(patients, patientId) IN
    IF index = 0
    THEN /\ last' = Call("deletePatient", <<patientId>>, Reject("Patient not found"))
         /\ UNCHANGED <<store, auditLog, now>>
    ELSE /\ patients' = SpliceOne(patients, index)
         /\ allergies' = cascade(allergies, patientId)
         /\ chronicConditions' = cascade(chronicConditions, patientId)
         /\ clinicalNotes' = cascade(clinicalNotes, patientId)
         /\ tasks' = cascade(tasks, patientId)
         /\ appointments' = cascade(appointments, patientId)
         /\ referrals' = cascade(referrals, patientId)
         /\ auditLog' = logAudit(auditLog, "Patient", patientId, "DELETE", sSystem, now)
         /\ last' = Call("deletePatient", <<patientId>>, Resolve(Obj([success |-> Bool(TRUE)])))
         /\ UNCHANGED <<workflows, now>>

\* ----------------------------------------------------- clinical notes ----
sDr == Str(<<"d", "r">>)

NoteInputs ==
  { Undefined,
    Obj([patientId |-> P20250001, createdBy |-> sDr]),
    Obj([patientId |-> P20250002, status |-> sFinal, isAIGenerated |-> Bool(TRUE)]) }

NoteIdArgs == {Num(1), Num(2)}

NoteUpdates ==
  { Obj([status |-> sFinal]),
    Obj([id |-> Num(7), content |-> Str(<<"x">>)]) }

getClinicalNotesByPatientResult(patientId) ==
  Resolve(Arr(byPatient(clinicalNotes, patientId)))

\* The object literal of createClinicalNote; noteData is an object here.
newNote(noteData, n, t) ==
  Spread(Spread([id |-> Num(n + 1)], Fields(noteData)),
         [status |-> OrElse(Get(Fields(noteData), "status"), sDraft),
          createdAt |-> Dt(t), updatedAt |-> Dt(t)])

createClinicalNote ==
  \E noteData \in NoteInputs :
    IF ~IsObj(noteData)
    THEN \* noteData.status on undefined: TypeError before anything is stored
         /\ last' = Call("createClinicalNote", <<noteData>>, Throw)
         /\ UNCHANGED <<store, auditLog, now>>
    ELSE LET nn == newNote(noteData, Len(clinicalNotes), now) IN
         /\ clinicalNotes' = Append(clinicalNotes, nn)
         /\ auditLog' = logAudit(auditLog, "ClinicalNote", nn.id, "CREATE",
                                 OrElse(Get(Fields(noteData), "createdBy"), sSystem), now)
         /\ last' = Call("createClinicalNote", <<noteData>>, Resolve(Obj(nn)))
         /\ UNCHANGED <<patients, allergies, chronicConditions, workflows,
                        tasks, appointments, referrals, now>>

updateClinicalNote ==
  \E noteId \in NoteIdArgs, updates \in NoteUpdates :
    LET index == lookup(clinicalNotes, noteId) IN
    IF index = 0
    THEN /\ last' = Call("updateClinicalNote", <<noteId, updates>>,
                         Reject("Clinical note not found"))
         /\ UNCHANGED <<store, auditLog, now>>
    ELSE LET merged == mergeUpdate(clinicalNotes[index], updates, now) IN
         /\ clinicalNotes' = ReplaceAt(clinicalNotes, index, merged)
         /\ auditLog' = logAudit(auditLog, "ClinicalNote", noteId, "UPDATE", sSystem, now)
         /\ last' = Call("updateClinicalNote", <<noteId, updates>>, Resolve(Obj(merged)))
         /\ UNCHANGED <<patients, allergies, chronicConditions, workflows,
                        tasks, appointments, referrals, now>>

\* ---------------------------------------------------------- allergies ----
sResolved == Str(<<"r", "e", "s", "o", "l", "v", "e", "d">>)

AllergyInputs ==
  { Obj([patientId |-> P20250001]),
    Obj([patientId |-> NoSuchPatient, status |-> sResolved]) }

AllergyIdArgs == {Num(1), Num(3), Str(<<"1">>)}

getAllergiesByPatientResult(patientId) == Resolve(Arr(byPatient(allergies, patientId)))

\* The object literal of addAllergy and addChronicCondition.
newActive(data, n) ==
  Spread(Spread([id |-> Num(n + 1)], Fields(data)), [status |-> sActive])

addAllergy ==
  \E allergyData \in AllergyInputs :
    LET na == newActive(allergyData, Len(allergies)) IN
    /\ allergies' = Append(allergies, na)
    /\ auditLog' = logAudit(auditLog, "Allergy", na.id, "CREATE", sSystem, now)
    /\ last' = Call("addAllergy", <<allergyData>>, Resolve(Obj(na)))
    /\ UNCHANGED <<patients, chronicConditions, clinicalNotes, workflows,
                   tasks, appointments, referrals, now>>

removeAllergy ==
  \E allergyId \in AllergyIdArgs :
    LET index == lookup(allergies, allergyId) IN
    IF index = 0
    THEN /\ last' = Call("removeAllergy", <<allergyId>>, Reject("Allergy not found"))
         /\ UNCHANGED <<store, auditLog, now>>
    ELSE /\ allergies' = SpliceOne(allergies, index)
         /\ auditLog' = logAudit(auditLog, "Allergy", allergyId, "DELETE", sSystem, now)
         /\ last' = Call("removeAllergy", <<allergyId>>, Resolve(Obj([success |-> Bool(TRUE)])))
         /\ UNCHANGED <<patients, chronicConditions, clinicalNotes, workflows,
                        tasks, appointments, referrals, now>>

\* -------------------------------------------------- chronic conditions ----
ConditionInputs == { Obj([patientId |-> P20250002]), Undefined }

getChronicConditionsByPatientResult(patientId) ==
  Resolve(Arr(byPatient(chronicConditions, patientId)))

addChronicCondition ==
  \E conditionData \in ConditionInputs :
    LET nc == newActive(conditionData, Len(chronicConditions)) IN
    /\ chronicConditions' = Append(chronicConditions, nc)
    /\ auditLog' = logAudit(auditLog, "ChronicCondition", nc.id, "CREATE", sSystem, now)
    /\ last' = Call("addChronicCondition", <<conditionData>>, Resolve(Obj(nc)))
    /\ UNCHANGED <<patients, allergies, clinicalNotes, workflows,
                   tasks, appointments, referrals, now>>

\* ---------------------------------------------------------- workflows ----
NoSuchWorkflow == Num(9999)

WorkflowIdArgs == {Num(1), Num(2), NoSuchWorkflow}

getAllWorkflowsResult == Resolve(Arr(workflows))

getAllWorkflows ==
  /\ last' = Call("getAllWorkflows", << >>, getAllWorkflowsResult)
  /\ UNCHANGED <<store, auditLog, now>>

getWorkflowByIdResult(workflowId) ==
  LET index == lookup(workflows, workflowId) IN
  IF index = 0 THEN Reject("Workflow not found") ELSE Resolve(Obj(workflows[index]))

getWorkflowById ==
  \E workflowId \in WorkflowIdArgs :
    /\ last' = Call("getWorkflowById", <<workflowId>>, getWorkflowByIdResult(workflowId))
    /\ UNCHANGED <<store, auditLog, now>>

\* usageCount raised by two.
bumpUsageTwice(workflow) == [workflow EXCEPT !.usageCount = @ + 2]

\* workflow.usageCount++
bumpUsage(workflow) == [workflow EXCEPT !.usageCount = @ + 1]

incrementWorkflowUsage ==
  \E workflowId \in WorkflowIdArgs :
    LET index == lookup(workflows, workflowId) IN
    IF index = 0
    THEN /\ last' = Call("incrementWorkflowUsage", <<workflowId>>, Resolve(Undefined))
         /\ UNCHANGED <<store, auditLog, now>>
    ELSE /\ workflows' = ReplaceAt(workflows, index, bumpUsage(workflows[index]))
         /\ auditLog' = logAudit(auditLog, "WorkflowTemplate", workflowId, "UPDATE",
                                 sSystem, now)
         /\ last' = Call("incrementWorkflowUsage", <<workflowId>>,
                         Resolve(Obj(bumpUsage(workflows[index]))))
         /\ UNCHANGED <<patients, allergies, chronicConditions, clinicalNotes,
                        tasks, appointments, referrals, now>>

\* -------------------------------------------------------------- tasks ----
sTitle == Str(<<"F", "o", "l", "l", "o", "w">>)

TaskInputs ==
  { Undefined,
    Obj([title |-> sTitle, patientId |-> P20250001]),
    Obj([title |-> sTitle, status |-> sCompleted]) }

TaskIdArgs == {Num(1), Num(2)}

sHigh == Str(<<"h", "i", "g", "h">>)

\* Updates handed to updateTask: a completion, a re-opening, and an update
\* that names no status.
TaskUpdates ==
  { Obj([status |-> sCompleted]),
    Obj([status |-> sPending, title |-> Str(<<"t">>)]),
    Obj([priority |-> sHigh]) }

getTasksByPatientResult(patientId) == Resolve(Arr(byPatient(tasks, patientId)))

\* The same literal with the default status whatever the caller supplied.
newWithDefaultStatus(data, n, default, t) ==
  Spread(Spread([id |-> Num(n + 1)], Fields(data)),
         [status |-> default, createdAt |-> Dt(t)])

\* The object literal of createTask, createAppointment and createReferral:
\* { id: length + 1, ...data, status: data.status || default, createdAt }.
newWithStatus(data, n, default, t) ==
  Spread(Spread([id |-> Num(n + 1)], Fields(data)),
         [status |-> OrElse(Get(Fields(data), "status"), default),
          createdAt |-> Dt(t)])

createTask ==
  \E taskData \in TaskInputs :
    IF ~IsObj(taskData)
    THEN /\ last' = Call("createTask", <<taskData>>, Throw)
         /\ UNCHANGED <<store, auditLog, now>>
    ELSE LET nt == newWithStatus(taskData, Len(tasks), sPending, now) IN
         /\ tasks' = Append(tasks, nt)
         /\ auditLog' = logAudit(auditLog, "Task", nt.id, "CREATE",
                                 OrElse(Get(Fields(taskData), "createdBy"), sSystem), now)
         /\ last' = Call("createTask", <<taskData>>, Resolve(Obj(nt)))
         /\ UNCHANGED <<patients, allergies, chronicConditions, clinicalNotes,
                        workflows, appointments, referrals, now>>

\* { ...task, ...updates }, then completedAt when updates.status is 'completed'.
mergeTask(task, updates, t) ==
  LET merged == Spread(task, Fields(updates)) IN
  IF Get(Fields(updates), "status") = sCompleted
  THEN Spread(merged, [completedAt |-> Dt(t)])
  ELSE merged

updateTask ==
  \E taskId \in TaskIdArgs, updates \in TaskUpdates :
    LET index == lookup(tasks, taskId) IN
    IF index = 0
    THEN /\ last' = Call("updateTask", <<taskId, updates>>, Reject("Task not found"))
         /\ UNCHANGED <<store, auditLog, now>>
    ELSE LET merged == mergeTask(tasks[index], updates, now) IN
         /\ tasks' = ReplaceAt(tasks, index, merged)
         /\ auditLog' = logAudit(auditLog, "Task", taskId, "UPDATE", sSystem, now)
         /\ last' = Call("updateTask", <<taskId, updates>>, Resolve(Obj(merged)))
         /\ UNCHANGED <<patients, allergies, chronicConditions, clinicalNotes,
                        workflows, appointments, referrals, now>>

\* ------------------------------------------- appointments and referrals ----
sConfirmed == Str(<<"c", "o", "n", "f", "i", "r", "m", "e", "d">>)

AppointmentInputs ==
  { Obj([patientId |-> P20250001, scheduledDate |-> Dt(1)]),
    Obj([patientId |-> P20250002, status |-> sConfirmed]) }

ReferralInputs ==
  { Obj([patientId |-> P20250001]),
    Obj([patientId |-> TimeId(0), status |-> sScheduled]) }

getAppointmentsByPatientResult(patientId) == Resolve(Arr(byPatient(appointments, patientId)))

getReferralsByPatientResult(patientId) == Resolve(Arr(byPatient(referrals, patientId)))

createAppointment ==
  \E appointmentData \in AppointmentInputs :
    IF ~IsObj(appointmentData)
    THEN /\ last' = Call("createAppointment", <<appointmentData>>, Throw)
         /\ UNCHANGED <<store, auditLog, now>>
    ELSE LET na == newWithStatus(appointmentData, Len(appointments), sScheduled, now) IN
         /\ appointments' = Append(appointments, na)
         /\ auditLog' = logAudit(auditLog, "Appointment", na.id, "CREATE", sSystem, now)
         /\ last' = Call("createAppointment", <<appointmentData>>, Resolve(Obj(na)))
         /\ UNCHANGED <<patients, allergies, chronicConditions, clinicalNotes,
                        workflows, tasks, referrals, now>>

createReferral ==
  \E referralData \in ReferralInputs :
    IF ~IsObj(referralData)
    THEN /\ last' = Call("createReferral", <<referralData>>, Throw)
         /\ UNCHANGED <<store, auditLog, now>>
    ELSE LET nr == newWithStatus(referralData, Len(referrals), sPending, now) IN
         /\ referrals' = Append(referrals, nr)
         /\ auditLog' = logAudit(auditLog, "Referral", nr.id, "CREATE", sSystem, now)
         /\ last' = Call("createReferral", <<referralData>>, Resolve(Obj(nr)))
         /\ UNCHANGED <<patients, allergies, chronicConditions, clinicalNotes,
                        workflows, tasks, appointments, now>>

\* ---------------------------------------------------------- audit log ----
\* Array.prototype.sort((a, b) => b.timestamp - a.timestamp): a stable sort,
\* latest first; entries of equal timestamp keep their relative order.
\* The copy returned as it stands, without the sort.
unsorted(logs) == logs

sortByTimestampDesc(logs) ==
  LET insert(sorted, e) ==
        LET k == Cardinality({i \in 1..Len(sorted) :
                                sorted[i].timestamp[2] >= e.timestamp[2]})
        IN SubSeq(sorted, 1, k) \o <<e>> \o SubSeq(sorted, k + 1, Len(sorted))
      S[i \in 0..Len(logs)] == IF i = 0 THEN << >> ELSE insert(S[i - 1], logs[i])
  IN S[Len(logs)]

\* Filters handed to getAuditLog; undefined takes the default {}.  An entity
\* type filter, when present, is a non-empty type name.
AuditFilters ==
  { Undefined,
    Obj([entityType |-> "Patient"]),
    Obj([entityId |-> Num(1)]),
    Obj([entityId |-> Str(<<"1">>), userId |-> sSystem]) }

getAuditLogResult(filters) ==
  LET f == Fields(filters)
      byType == IF "entityType" \in DOMAIN f
                THEN Filter(auditLog, LAMBDA l : l.entityType = f.entityType)
                ELSE auditLog
      byId == IF Truthy(Get(f, "entityId"))
              THEN Filter(byType, LAMBDA l : l.entityId = f.entityId)
              ELSE byType
      byUser == IF Truthy(Get(f, "userId"))
                THEN Filter(byId, LAMBDA l : l.userId = f.userId)
                ELSE byId
  IN Resolve(Arr(sortByTimestampDesc(byUser)))

\* getAuditLog sorting the stored array itself (no copy taken).
getAuditLogInPlace ==
  \E filters \in AuditFilters :
    /\ last' = Call("getAuditLog", <<filters>>, getAuditLogResult(filters))
    /\ auditLog' = sortByTimestampDesc(auditLog)
    /\ UNCHANGED <<store, now>>

getAuditLog ==
  \E filters \in AuditFilters :
    /\ last' = Call("getAuditLog", <<filters>>, getAuditLogResult(filters))
    /\ UNCHANGED <<store, auditLog, now>>

\* ------------------------------------------------- search and analytics ----
SearchQueries ==
  { Undefined,
    Str(<<"l", "o", "v", "e", "l", "a", "c", "e">>),
    Str(<<"s", "a", "r", "a", "h">>) }

SearchFields == <<"firstName", "lastName", "id", "email">>

\* The filter callback of searchPatients on patient p: "true", "false", or
\* "throw" when a field it reaches is not a string (toLowerCase of undefined).
\* The || chain stops at the first field that matches.
searchMatch(p, lowerQuery) ==
  LET M[k \in 1..5] ==
        IF k = 5 THEN "false"
        ELSE LET v == Get(p, SearchFields[k]) IN
             IF ~IsStr(v) THEN "throw"
             ELSE IF includes(toLowerCase(v[2]), lowerQuery) THEN "true"
             ELSE M[k + 1]
  IN M[1]

searchPatientsResult(query) ==
  IF ~IsStr(query) THEN Throw
  ELSE LET lowerQuery == toLowerCase(query[2]) IN
       IF \E i \in 1..Len(patients) : searchMatch(patients[i], lowerQuery) = "throw"
       THEN Throw
       ELSE Resolve(Arr(Filter(patients,
                               LAMBDA p : searchMatch(p, lowerQuery) = "true")))

searchPatients ==
  \E query \in SearchQueries :
    /\ last' = Call("searchPatients", <<query>>, searchPatientsResult(query))
    /\ UNCHANGED <<store, auditLog, now>>

\* new Date(a.scheduledDate) > new Date(): false for a missing (invalid) date.
upcoming(a, t) ==
  /\ Get(a, "status") = sScheduled
  /\ Get(a, "scheduledDate")[1] = "date"
  /\ Get(a, "scheduledDate")[2] > t

\* getStatistics with every stored patient counted as active.
getStatisticsCountingAll ==
  Resolve(Obj(
    [totalPatients |-> Len(patients),
     activePatients |-> Len(patients),
     totalClinicalNotes |-> Len(clinicalNotes),
     aiGeneratedNotes |->
       Len(Filter(clinicalNotes, LAMBDA n : Truthy(Get(n, "isAIGenerated")))),
     pendingTasks |-> Len(Filter(tasks, LAMBDA t : Get(t, "status") = sPending)),
     upcomingAppointments |-> Len(Filter(appointments, LAMBDA a : upcoming(a, now)))]))

getStatisticsResult ==
  Resolve(Obj(
    [totalPatients |-> Len(patients),
     activePatients |-> Len(Filter(patients, LAMBDA p : Get(p, "status") = sActive)),
     totalClinicalNotes |-> Len(clinicalNotes),
     aiGeneratedNotes |->
       Len(Filter(clinicalNotes, LAMBDA n : Truthy(Get(n, "isAIGenerated")))),
     pendingTasks |-> Len(Filter(tasks, LAMBDA t : Get(t, "status") = sPending)),
     upcomingAppointments |-> Len(Filter(appointments, LAMBDA a : upcoming(a, now)))]))

getStatistics ==
  /\ last' = Call("getStatistics", << >>, getStatisticsResult)
  /\ UNCHANGED <<store, auditLog, now>>

\* The six get-by-patient queries.
getByPatient ==
  \E patientId \in {P20250001, NoSuchPatient} :
    \E r \in { Call("getClinicalNotesByPatient", <<patientId>>,
                    getClinicalNotesByPatientResult(patientId)),
               Call("getAllergiesByPatient", <<patientId>>,
                    getAllergiesByPatientResult(patientId)),
               Call("getChronicConditionsByPatient", <<patientId>>,
                    getChronicConditionsByPatientResult(patientId)),
               Call("getTasksByPatient", <<patientId>>,
                    getTasksByPatientResult(patientId)),
               Call("getAppointmentsByPatient", <<patientId>>,
                    getAppointmentsByPatientResult(patientId)),
               Call("getReferralsByPatient", <<patientId>>,
                    getReferralsByPatientResult(patientId)) } :
      /\ last' = r
      /\ UNCHANGED <<store, auditLog, now>>

\* ------------------------------------------------------ specification ----
\* The store under every sequence of mutating calls; a behaviour makes at
\* most MaxAudit audited calls.
Next ==
  \/ Len(auditLog) < MaxAudit /\ createPatient /\ UNCHANGED patient
  \/ Len(auditLog) < MaxAudit /\ updatePatient /\ UNCHANGED patient
  \/ Len(auditLog) < MaxAudit /\ deletePatient /\ UNCHANGED patient
  \/ Len(auditLog) < MaxAudit /\ createClinicalNote /\ UNCHANGED patient
  \/ Len(auditLog) < MaxAudit /\ updateClinicalNote /\ UNCHANGED patient
  \/ Len(auditLog) < MaxAudit /\ addAllergy /\ UNCHANGED patient
  \/ Len(auditLog) < MaxAudit /\ removeAllergy /\ UNCHANGED patient
  \/ Len(auditLog) < MaxAudit /\ addChronicCondition /\ UNCHANGED patient
  \/ Len(auditLog) < MaxAudit /\ incrementWorkflowUsage /\ UNCHANGED patient
  \/ Len(auditLog) < MaxAudit /\ createTask /\ UNCHANGED patient
  \/ Len(auditLog) < MaxAudit /\ updateTask /\ UNCHANGED patient
  \/ Len(auditLog) < MaxAudit /\ createAppointment /\ UNCHANGED patient
  \/ Len(auditLog) < MaxAudit /\ createReferral /\ UNCHANGED patient
  \/ Tick /\ UNCHANGED patient

Spec == Init /\ [][Next]_vars

\* The whole facade: the mutating calls interleaved with the read calls.
FacadeNext ==
  \/ Len(auditLog) < MaxAuditFacade /\ createPatient /\ UNCHANGED patient
  \/ Len(auditLog) < MaxAuditFacade /\ updatePatient /\ UNCHANGED patient
  \/ Len(auditLog) < MaxAuditFacade /\ deletePatient /\ UNCHANGED patient
  \/ Len(auditLog) < MaxAuditFacade /\ createClinicalNote /\ UNCHANGED patient
  \/ Len(auditLog) < MaxAuditFacade /\ updateClinicalNote /\ UNCHANGED patient
  \/ Len(auditLog) < MaxAuditFacade /\ addAllergy /\ UNCHANGED patient
  \/ Len(auditLog) < MaxAuditFacade /\ removeAllergy /\ UNCHANGED patient
  \/ Len(auditLog) < MaxAuditFacade /\ addChronicCondition /\ UNCHANGED patient
  \/ Len(auditLog) < MaxAuditFacade /\ incrementWorkflowUsage /\ UNCHANGED patient
  \/ Len(auditLog) < MaxAuditFacade /\ createTask /\ UNCHANGED patient
  \/ Len(auditLog) < MaxAuditFacade /\ updateTask /\ UNCHANGED patient
  \/ Len(auditLog) < MaxAuditFacade /\ createAppointment /\ UNCHANGED patient
  \/ Len(auditLog) < MaxAuditFacade /\ createReferral /\ UNCHANGED patient
  \/ getAllPatients /\ UNCHANGED patient
  \/ getPatientById /\ UNCHANGED patient
  \/ getByPatient /\ UNCHANGED patient
  \/ getAllWorkflows /\ UNCHANGED patient
  \/ getWorkflowById /\ UNCHANGED patient
  \/ getAuditLog /\ UNCHANGED patient
  \/ searchPatients /\ UNCHANGED patient
  \/ getStatistics /\ UNCHANGED patient
  \/ Tick /\ UNCHANGED patient

FacadeSpec == Init /\ [][FacadeNext]_vars

\* ---------------------------------------------------------- properties ----
\* A step in which a facade call ran and changed something observable.
CallStep == now' = now /\ vars' # vars

\* The last call was op and it resolved.
Resolved(op) == last.op = op /\ last.outcome = "resolved"

\* No record of seq references patient patientId.
NoRef(seq, patientId) ==
  \A i \in 1..Len(seq) : Get(seq[i], "patientId") # patientId

\* C1: after deletePatient(P) resolves, no allergy, chronic condition,
\* clinical note, task, appointment or referral has patientId = P, and
\* getPatientById(P) rejects with 'Patient not found'.
C1_CascadeAndNotFound ==
  Resolved("deletePatient") =>
    LET P == last.args[1] IN
    /\ NoRef(allergies, P)
    /\ NoRef(chronicConditions, P)
    /\ NoRef(clinicalNotes, P)
    /\ NoRef(tasks, P)
    /\ NoRef(appointments, P)
    /\ NoRef(referrals, P)
    /\ getPatientByIdResult(P) = Reject("Patient not found")

CreateOps ==
  {"createPatient", "createClinicalNote", "addAllergy", "addChronicCondition",
   "createTask", "createAppointment", "createReferral"}
UpdateOps ==
  {"updatePatient", "updateClinicalNote", "updateTask", "incrementWorkflowUsage"}
DeleteOps == {"deletePatient", "removeAllergy"}
MutatingOps == CreateOps \cup UpdateOps \cup DeleteOps

\* The audit action that belongs to an operation.
ActionOf(op) ==
  IF op \in CreateOps THEN "CREATE"
  ELSE IF op \in UpdateOps THEN "UPDATE" ELSE "DELETE"

\* The id of the record a resolved mutating call affected: the id of the
\* record it stored (a create), the id it was called with and matched (an
\* update or a delete).
AffectedId(call) ==
  IF call.op \in CreateOps THEN call.value[2].id ELSE call.args[1]

\* C2: every mutating call that resolves (incrementWorkflowUsage on an
\* existing id) lengthens the audit log by exactly one entry, leaves the
\* earlier entries as they were, and the new entry carries the action of the
\* operation kind and the string form of the affected record's id;
\* deletePatient adds one entry whatever it cascades over.
C2_OneAuditEntryPerMutation ==
  [][ ( /\ CallStep
        /\ last'.op \in MutatingOps
        /\ last'.outcome = "resolved"
        /\ (last'.op = "incrementWorkflowUsage"
              => lookup(workflows, last'.args[1]) # 0) )
      => /\ Len(auditLog') = Len(auditLog) + 1
         /\ SubSeq(auditLog', 1, Len(auditLog)) = auditLog
         /\ auditLog'[Len(auditLog')].action = ActionOf(last'.op)
         /\ auditLog'[Len(auditLog')].entityId = String(AffectedId(last'))
    ]_vars

\* Witness of C2: a deletePatient that cascaded over several dependent
\* records has just been audited, after an earlier audited call.
C2_Witness ==
  /\ Resolved("deletePatient")
  /\ last.args[1] = P20250001
  /\ Len(allergies) < Len(SeedAllergies) - 1
  /\ Len(auditLog) >= 2
  /\ auditLog[Len(auditLog)].action = "DELETE"

\* No two records of seq have the same id.
UniqueIds(seq) ==
  \A i, j \in 1..Len(seq) : i # j => Get(seq[i], "id") # Get(seq[j], "id")

\* C3: in every reachable state no two allergies, no two chronic conditions,
\* no two clinical notes, no two tasks, no two appointments and no two
\* referrals have the same id.
C3_UniqueDependentIds ==
  /\ UniqueIds(allergies)
  /\ UniqueIds(chronicConditions)
  /\ UniqueIds(clinicalNotes)
  /\ UniqueIds(tasks)
  /\ UniqueIds(appointments)
  /\ UniqueIds(referrals)

\* C4: the patient createPatient has just stored has an id that differs
\* from the id of every patient that was already in the store.
C4_FreshPatientId ==
  Resolved("createPatient") =>
    \A i \in 1..(Len(patients) - 1) :
      Get(patients[i], "id") # Get(patients[Len(patients)], "id")

\* The sequence an id-keyed operation looks its id up in.
TargetSeq(op) ==
  CASE op \in {"getPatientById", "updatePatient", "deletePatient"} -> patients
    [] op = "updateClinicalNote" -> clinicalNotes
    [] op = "removeAllergy" -> allergies
    [] op = "updateTask" -> tasks
    [] op \in {"getWorkflowById", "incrementWorkflowUsage"} -> workflows

TargetSeqAfter(op) ==
  CASE op \in {"getPatientById", "updatePatient", "deletePatient"} -> patients'
    [] op = "updateClinicalNote" -> clinicalNotes'
    [] op = "removeAllergy" -> allergies'
    [] op = "updateTask" -> tasks'
    [] op \in {"getWorkflowById", "incrementWorkflowUsage"} -> workflows'

\* No record of seq has the id `id`.
NoMatch(seq, id) == \A i \in 1..Len(seq) : Get(seq[i], "id") # id

\* The position of the first record of seq with the id `id`.
FirstMatch(seq, id) ==
  CHOOSE i \in 1..Len(seq) :
    Get(seq[i], "id") = id /\ \A j \in 1..(i - 1) : Get(seq[j], "id") # id

\* C5: updatePatient, updateClinicalNote and updateTask leave the id of the
\* record they target as it was before the call.
C5_IdImmutable ==
  [][ ( /\ CallStep
        /\ last'.op \in {"updatePatient", "updateClinicalNote", "updateTask"}
        /\ last'.outcome = "resolved" )
      => LET k == FirstMatch(TargetSeq(last'.op), last'.args[1]) IN
         Get(TargetSeqAfter(last'.op)[k], "id") = Get(TargetSeq(last'.op)[k], "id")
    ]_vars

NotFoundOps ==
  {"getPatientById", "updatePatient", "deletePatient", "updateClinicalNote",
   "removeAllergy", "updateTask", "getWorkflowById"}

NotFoundMessage(op) ==
  CASE op \in {"getPatientById", "updatePatient", "deletePatient"} -> "Patient not found"
    [] op = "updateClinicalNote" -> "Clinical note not found"
    [] op = "removeAllergy" -> "Allergy not found"
    [] op = "updateTask" -> "Task not found"
    [] op = "getWorkflowById" -> "Workflow not found"

\* C6: getPatientById, updatePatient, deletePatient, updateClinicalNote,
\* removeAllergy, updateTask and getWorkflowById, called with an id that no
\* record of the type has, reject with the type's not-found error and leave
\* every entity sequence and the audit log as they were.
C6_NotFoundRejectsUnchanged ==
  [][ ( /\ CallStep
        /\ last'.op \in NotFoundOps
        /\ NoMatch(TargetSeq(last'.op), last'.args[1]) )
      => /\ last'.outcome = "rejected"
         /\ last'.value = Err(NotFoundMessage(last'.op))
         /\ store' = store
         /\ auditLog' = auditLog
    ]_vars

\* Witness of C6: getPatientById has just rejected the id of a seeded
\* patient that an earlier deletePatient removed.
C6_Witness ==
  /\ last.op = "getPatientById"
  /\ last.outcome = "rejected"
  /\ last.args[1] = P20250001
  /\ NoMatch(patients, P20250001)
  /\ Len(auditLog) > 0

\* C7: after createPatient(D), getPatientById on the returned id resolves to
\* a record that has every field of D with D's value (the status and the
\* timestamps, which the claim fixes itself, aside), status 'active' and
\* createdAt and updatedAt set.
C7_CreateThenGet ==
  Resolved("createPatient") =>
    LET D == Fields(last.args[1])
        r == getPatientByIdResult(last.value[2].id)
    IN /\ r.outcome = "resolved"
       /\ \A f \in DOMAIN D \ {"status", "createdAt", "updatedAt"} :
            Get(r.value[2], f) = D[f]
       /\ Get(r.value[2], "status") = sActive
       /\ Get(r.value[2], "createdAt") # Undefined
       /\ Get(r.value[2], "updatedAt") # Undefined

\* C8: no facade call raises a synchronous exception to its caller.
C8_NoSynchronousThrow == last.outcome # "threw"

\* C9: incrementWorkflowUsage with an id that no workflow has resolves with
\* undefined, leaves every workflow (its usageCount included) as it was and
\* appends no audit entry.
C9_IncrementUnknownIsSilent ==
  [][ ( /\ CallStep
        /\ last'.op = "incrementWorkflowUsage"
        /\ NoMatch(workflows, last'.args[1]) )
      => /\ last'.outcome = "resolved"
         /\ last'.value = Undefined
         /\ \A i \in 1..Len(workflows) :
              workflows'[i].usageCount = workflows[i].usageCount
         /\ workflows' = workflows
         /\ auditLog' = auditLog
    ]_vars

\* Witness of C9: the unknown id has just been passed, after a successful
\* increment of an existing workflow.
C9_Witness ==
  /\ last.op = "incrementWorkflowUsage"
  /\ last.args[1] = NoSuchWorkflow
  /\ last.value = Undefined
  /\ \E i \in 1..Len(workflows) :
       workflows[i].usageCount > SeedWorkflows[i].usageCount

\* The audit entries of successful increments of workflow id.
UsageEntries(id) ==
  {k \in 1..Len(auditLog) :
     /\ auditLog[k].entityType = "WorkflowTemplate"
     /\ auditLog[k].entityId = String(id)}

\* C10: incrementWorkflowUsage with an existing id raises that workflow's
\* usageCount by exactly one, leaves every other workflow and every other
\* field as they were and appends one UPDATE entry of type WorkflowTemplate;
\* after n such calls the counter is its initial value plus n.
C10_IncrementByOne ==
  /\ [][ ( /\ CallStep
           /\ last'.op = "incrementWorkflowUsage"
           /\ ~NoMatch(workflows, last'.args[1]) )
         => LET k == FirstMatch(workflows, last'.args[1]) IN
            /\ workflows'[k].usageCount = workflows[k].usageCount + 1
            /\ workflows' = [workflows EXCEPT ![k].usageCount = workflows'[k].usageCount]
            /\ Len(auditLog') = Len(auditLog) + 1
            /\ auditLog'[Len(auditLog')].entityType = "WorkflowTemplate"
            /\ auditLog'[Len(auditLog')].action = "UPDATE"
       ]_vars
  /\ [](\A i \in 1..Len(workflows) :
          workflows[i].usageCount =
            SeedWorkflows[i].usageCount + Cardinality(UsageEntries(workflows[i].id)))

\* Witness of C10: one workflow has been incremented twice, another not.
C10_Witness ==
  /\ last.op = "incrementWorkflowUsage"
  /\ workflows[1].usageCount = SeedWorkflows[1].usageCount + 2
  /\ workflows[2].usageCount = SeedWorkflows[2].usageCount

\* C11: the task a successful updateTask stored and returned has a
\* completedAt whenever its (merged) status is 'completed'.
C11_CompletedHasTimestamp ==
  Resolved("updateTask") =>
    ( Get(last.value[2], "status") = sCompleted
        => Get(last.value[2], "completedAt") # Undefined )

\* C12: createTask leaves no task in status 'completed' (that status is
\* entered through updateTask only), so every stored task whose status is
\* 'completed' has a completedAt.
C12_CompletedOnlyByUpdate ==
  /\ Resolved("createTask") => Get(last.value[2], "status") # sCompleted
  /\ \A i \in 1..Len(tasks) :
       Get(tasks[i], "status") = sCompleted
         => Get(tasks[i], "completedAt") # Undefined

\* C13: a task whose status is 'completed' or 'cancelled' keeps that status
\* through every updateTask that targets it.
C13_TerminalStatusStays ==
  [][ ( /\ CallStep
        /\ last'.op = "updateTask"
        /\ last'.outcome = "resolved"
        /\ Get(tasks[FirstMatch(tasks, last'.args[1])], "status")
             \in {sCompleted, sCancelled} )
      => LET k == FirstMatch(tasks, last'.args[1]) IN
         Get(tasks'[k], "status") = Get(tasks[k], "status")
    ]_vars

\* The sequence a create operation appends to.
CreatedSeq(op) ==
  CASE op = "createPatient" -> patients
    [] op = "createClinicalNote" -> clinicalNotes
    [] op = "addAllergy" -> allergies
    [] op = "addChronicCondition" -> chronicConditions
    [] op = "createTask" -> tasks
    [] op = "createAppointment" -> appointments
    [] op = "createReferral" -> referrals

\* The record the last (create) call stored: the last one of its sequence.
Stored == CreatedSeq(last.op)[Len(CreatedSeq(last.op))]

\* The default status of what a create operation stores.
DefaultStatus(op) ==
  CASE op = "createClinicalNote" -> sDraft
    [] op \in {"createTask", "createReferral"} -> sPending
    [] op = "createAppointment" -> sScheduled
    [] op \in {"addAllergy", "addChronicCondition"} -> sActive

\* C14: a create call whose input carries no status stores the default
\* status of its entity type; addAllergy and addChronicCondition store
\* 'active'; createClinicalNote, createTask, createAppointment and
\* createReferral store the status the caller supplied (a non-empty one)
\* unchanged.
C14_DefaultStatus ==
  ( /\ last.op \in {"createClinicalNote", "addAllergy", "addChronicCondition",
                    "createTask", "createAppointment", "createReferral"}
    /\ last.outcome = "resolved" )
  => LET given == Get(Fields(last.args[1]), "status") IN
     /\ Stored = last.value[2]
     /\ ~Truthy(given) => Get(Stored, "status") = DefaultStatus(last.op)
     /\ (Truthy(given) /\ last.op \notin {"addAllergy", "addChronicCondition"})
          => Get(Stored, "status") = given
     /\ last.op \in {"addAllergy", "addChronicCondition"}
          => Get(Stored, "status") = sActive

\* Witness of C14: createReferral has stored the status its caller supplied,
\* after a createTask without a status stored 'pending'.
C14_Witness ==
  /\ Resolved("createReferral")
  /\ Get(Fields(last.args[1]), "status") = sScheduled
  /\ Get(referrals[Len(referrals)], "status") = sScheduled
  /\ Len(tasks) = 1
  /\ Get(tasks[1], "status") = sPending

\* C15: the audit entry of createClinicalNote(data) has action CREATE, type
\* ClinicalNote and the user data.createdBy when supplied, 'system'
\* otherwise; every audit entry of a patient, allergy, condition,
\* appointment or referral operation has the user 'system'.
C15_AuditUser ==
  /\ Resolved("createClinicalNote") =>
       LET e == auditLog[Len(auditLog)]
           by == Get(Fields(last.args[1]), "createdBy")
       IN /\ e.action = "CREATE"
          /\ e.entityType = "ClinicalNote"
          /\ e.userId = IF Truthy(by) THEN by ELSE sSystem
  /\ \A k \in 1..Len(auditLog) :
       auditLog[k].entityType \in
           {"Patient", "Allergy", "ChronicCondition", "Appointment", "Referral"}
         => auditLog[k].userId = sSystem

\* Witness of C15: a note created by 'dr' has just been audited under that
\* user, after a patient operation audited under 'system'.
C15_Witness ==
  /\ Resolved("createClinicalNote")
  /\ Len(auditLog) = 2
  /\ auditLog[1].entityType = "Patient"
  /\ auditLog[2].userId = sDr

\* ---------------------------------------------- audit specification ----
\* The audit log grown to MaxAuditLog entries by creates of three entity
\* types at different clock values, and read back under every filter.
MaxAuditLog == 3

AuditNext ==
  \/ Len(auditLog) < MaxAuditLog /\ createPatient /\ UNCHANGED patient
  \/ Len(auditLog) < MaxAuditLog /\ createClinicalNote /\ UNCHANGED patient
  \/ Len(auditLog) < MaxAuditLog /\ createTask /\ UNCHANGED patient
  \/ getAuditLog /\ UNCHANGED patient
  \/ Tick /\ UNCHANGED patient

AuditSpec == Init /\ [][AuditNext]_vars

\* Entry e passes the filters: each of entityType, entityId and userId that
\* is supplied is identical to the entry's.
Matches(e, filters) ==
  LET f == Fields(filters) IN
  /\ "entityType" \in DOMAIN f => e.entityType = f.entityType
  /\ Truthy(Get(f, "entityId")) => e.entityId = f.entityId
  /\ Truthy(Get(f, "userId")) => e.userId = f.userId

\* C16: getAuditLog(filters) returns exactly the entries matching every
\* supplied filter (all of them without filters), none preceded by an entry
\* with an earlier timestamp, and the stored log is left as it was.
C16_AuditLogQuery ==
  /\ [](last.op = "getAuditLog" =>
          /\ last.outcome = "resolved"
          /\ LET r == last.value[2]
                 want == {k \in 1..Len(auditLog) :
                            Matches(auditLog[k], last.args[1])}
             IN /\ Len(r) = Cardinality(want)
                /\ {r[i] : i \in 1..Len(r)} = {auditLog[k] : k \in want}
                /\ \A i, j \in 1..Len(r) :
                     i < j => r[i].timestamp[2] >= r[j].timestamp[2])
  /\ [][(CallStep /\ last'.op = "getAuditLog") => auditLog' = auditLog]_vars

\* Witness of C16: a filtered query has returned two of three entries, the
\* later one first, while the stored log keeps the earlier one first.
C16_Witness ==
  /\ Resolved("getAuditLog")
  /\ Len(auditLog) = 3
  /\ Len(last.value[2]) = 2
  /\ last.args[1] # Undefined
  /\ last.value[2][1].timestamp[2] > last.value[2][2].timestamp[2]
  /\ auditLog[1].timestamp[2] < auditLog[3].timestamp[2]

\* Patient p has q, case aside, inside its first name, last name, id or email.
HasSubstring(p, q) ==
  \E k \in 1..Len(SearchFields) :
    LET v == Get(p, SearchFields[k]) IN
    /\ IsStr(v)
    /\ includes(toLowerCase(v[2]), toLowerCase(q[2]))

\* Store positions of the patients that have q inside one of the four fields.
Hits(q) == {i \in 1..Len(patients) : HasSubstring(patients[i], q)}

\* C17: searchPatients(q) returns exactly the patients that have q, case
\* aside, inside first name, last name, id or email, in store order; with
\* one patient named Lovelace created in the seeded store,
\* searchPatients('lovelace') returns exactly that patient.
C17_SearchPatients ==
  (last.op = "searchPatients" /\ IsStr(last.args[1])) =>
    /\ last.outcome = "resolved"
    /\ LET r == last.value[2] IN
       /\ Len(r) = Cardinality(Hits(last.args[1]))
       /\ {r[i] : i \in 1..Len(r)} = {patients[i] : i \in Hits(last.args[1])}
       /\ \A i, j \in 1..Len(r) :
            i < j => \E a, b \in Hits(last.args[1]) :
                       a < b /\ patients[a] = r[i] /\ patients[b] = r[j]
    /\ ( /\ last.args[1] = Str(toLowerCase(sLovelace[2]))
         /\ Len(patients) = Len(SeedPatients) + 1
         /\ SubSeq(patients, 1, Len(SeedPatients)) = SeedPatients
         /\ Get(patients[Len(patients)], "lastName") = sLovelace )
       => last.value[2] = <<patients[Len(patients)]>>

\* The 'lovelace' example of C17 taken alone.
LovelaceExample ==
  ( /\ last.op = "searchPatients"
    /\ last.args[1] = Str(toLowerCase(sLovelace[2]))
    /\ Len(patients) = Len(SeedPatients) + 1
    /\ SubSeq(patients, 1, Len(SeedPatients)) = SeedPatients
    /\ Get(patients[Len(patients)], "lastName") = sLovelace )
  => /\ last.outcome = "resolved"
     /\ last.value[2] = <<patients[Len(patients)]>>

\* C18: in every reachable state getStatistics().totalPatients is the length
\* of the getAllPatients() result, and activePatients is at most
\* totalPatients and is the number of stored patients with status 'active'.
C18_StatisticsTotals ==
  LET st == getStatisticsResult.value[2]
      all == getAllPatientsResult.value[2]
  IN /\ getStatisticsResult.outcome = "resolved"
     /\ st.totalPatients = Len(all)
     /\ st.activePatients <= st.totalPatients
     /\ st.activePatients =
          Cardinality({i \in 1..Len(patients) :
                         Get(patients[i], "status") = sActive})
     /\ last.op = "getStatistics" =>
          /\ last.value[2].totalPatients = st.totalPatients
          /\ last.value[2].activePatients = st.activePatients

\* Witness of C18: getStatistics has reported fewer active patients than
\* patients, one of the stored patients being inactive or deceased.
C18_Witness ==
  /\ Resolved("getStatistics")
  /\ last.value[2].activePatients < last.value[2].totalPatients
  /\ \E i \in 1..Len(patients) : Get(patients[i], "status") # sActive

\* The read operations of the facade.
ReadOps ==
  {"getAllPatients", "getPatientById", "getClinicalNotesByPatient",
   "getAllergiesByPatient", "getChronicConditionsByPatient",
   "getTasksByPatient", "getAppointmentsByPatient", "getReferralsByPatient",
   "getAllWorkflows", "getWorkflowById", "searchPatients", "getAuditLog",
   "getStatistics"}

\* A step that is a call of a read operation.
ReadStep == now' = now /\ last'.op \in ReadOps

\* The step repeats the previous call: same read operation, same arguments,
\* the previous call being the last thing the facade did.
RepeatsLastCall == ReadStep /\ last.op = last'.op /\ last.args = last'.args

\* C19 as stated: a read leaves every entity sequence and the audit log
\* unchanged, and a read repeated with no mutation in between gives the
\* result of the previous call.
C19_ReadsRepeatable ==
  [][ /\ ReadStep => (store' = store /\ auditLog' = auditLog)
      /\ RepeatsLastCall =>
           (last'.outcome = last.outcome /\ last'.value = last.value)
    ]_vars

\* A getStatistics result with the clock-dependent count left out.
TimelessStatistics(v) == [v[2] EXCEPT !.upcomingAppointments = 0]

\* C19 amended: a read leaves every entity sequence and the audit log
\* unchanged, and a read repeated with no mutation in between gives the
\* result of the previous call, except that upcomingAppointments of
\* getStatistics is counted against the clock of each call.
C19_ReadsRepeatableButClock ==
  [][ /\ ReadStep => (store' = store /\ auditLog' = auditLog)
      /\ RepeatsLastCall =>
           /\ last'.outcome = last.outcome
           /\ IF last'.op = "getStatistics"
              THEN TimelessStatistics(last'.value) = TimelessStatistics(last.value)
              ELSE last'.value = last.value
    ]_vars

\* Witness of C19: the previous getStatistics counted an appointment as
\* upcoming, the clock has since reached its scheduled date, and no
\* mutation happened in between: the next getStatistics repeats the call.
C19_Witness ==
  /\ Resolved("getStatistics")
  /\ last.value[2].upcomingAppointments = 1
  /\ Len(appointments) = 1
  /\ Get(appointments[1], "scheduledDate") = Dt(now)
  /\ getStatisticsResult.value[2].upcomingAppointments = 0

\* ---------------------------------------------- merge specification ----
\* The seeded patients updated, and notes and tasks created and updated, up
\* to MaxMerge times in all, at different clock values.
MaxMerge == 3

MergeNext ==
  \/ Len(auditLog) < MaxMerge /\ updatePatient /\ UNCHANGED patient
  \/ Len(auditLog) < MaxMerge /\ createClinicalNote /\ UNCHANGED patient
  \/ Len(auditLog) < MaxMerge /\ updateClinicalNote /\ UNCHANGED patient
  \/ Len(auditLog) < MaxMerge /\ createTask /\ UNCHANGED patient
  \/ Len(auditLog) < MaxMerge /\ updateTask /\ UNCHANGED patient
  \/ Tick /\ UNCHANGED patient

MergeSpec == Init /\ [][MergeNext]_vars

TimestampFields == {"createdAt", "updatedAt", "completedAt"}

\* Record r without its timestamp fields.
Timeless(r) == [f \in DOMAIN r \ TimestampFields |-> r[f]]

\* Record r overwritten field by field by u1 and then by u2.
Overwritten(r, u1, u2) ==
  [f \in DOMAIN r \cup DOMAIN u1 \cup DOMAIN u2 |->
     IF f \in DOMAIN u2 THEN u2[f]
     ELSE IF f \in DOMAIN u1 THEN u1[f] ELSE r[f]]

\* Two further updates of record r compose to the field-by-field overwrite,
\* and an update applied twice gives what it gives applied once, under the
\* updates of set U; Merge is the merge of the entity type.
MergeLaws(r, U, Merge(_, _, _)) ==
  \A u1 \in U :
    /\ \A u2 \in U :
         Timeless(Merge(Merge(r, u1, now), u2, MaxClock))
           = Timeless(Overwritten(r, Fields(u1), Fields(u2)))
    /\ Timeless(Merge(Merge(r, u1, now), u1, MaxClock))
         = Timeless(Merge(r, u1, now))

\* C20: a patient, note or task updated with U1 and then U2 is the record
\* before them overwritten by U1 and then U2 field by field, and an update
\* applied twice gives the same record as applied once, timestamp fields
\* aside; each resolved update stores that merge for the record it targets
\* and leaves the other records as they were, and the record it returns
\* obeys both laws under every two further updates.
C20_ShallowMerge ==
  /\ [][ ( /\ last'.op \in {"updatePatient", "updateClinicalNote", "updateTask"}
           /\ last'.outcome = "resolved"
           /\ CallStep )
         => LET before == TargetSeq(last'.op)
                after == TargetSeqAfter(last'.op)
                k == FirstMatch(before, last'.args[1])
            IN /\ Len(after) = Len(before)
               /\ \A i \in 1..Len(before) : i # k => after[i] = before[i]
               /\ Timeless(after[k])
                    = Timeless(Spread(before[k], Fields(last'.args[2])))
               /\ last'.value[2] = after[k]
       ]_vars
  /\ [](/\ Resolved("updatePatient") =>
             MergeLaws(last.value[2], PatientUpdates, mergeUpdate)
        /\ Resolved("updateClinicalNote") =>
             MergeLaws(last.value[2], NoteUpdates, mergeUpdate)
        /\ Resolved("updateTask") =>
             MergeLaws(last.value[2], TaskUpdates, mergeTask))

\* Witness of C20: a created task was updated to 'completed' and then
\* updated again with another status and a title; the second update won the
\* status, the title is the second update's, the rest is as created.
C20_Witness ==
  /\ Resolved("updateTask")
  /\ Len(auditLog) = 3
  /\ Len(tasks) = 1
  /\ Get(Fields(last.args[2]), "status") = sPending
  /\ Get(tasks[1], "completedAt") # Undefined
  /\ Get(tasks[1], "status") = sPending
  /\ Get(tasks[1], "title") = Str(<<"t">>)
  /\ Get(tasks[1], "patientId") = P20250001

\* C21: every allergy, chronic condition, clinical note, appointment and
\* referral, and every task that carries a patientId, names at the moment it
\* is created a patient that exists in the store.
C21_ChildNamesExistingPatient ==
  ( /\ last.op \in {"addAllergy", "addChronicCondition", "createClinicalNote",
                    "createTask", "createAppointment", "createReferral"}
    /\ last.outcome = "resolved" )
  => LET patientId == Get(last.value[2], "patientId") IN
     \/ last.op = "createTask" /\ patientId = Undefined
     \/ \E i \in 1..Len(patients) : Get(patients[i], "id") = patientId

\* C22: in every reachable state the audit log is ordered by time: of any
\* two entries the one appended earlier has a timestamp less than or equal
\* to that of the one appended later (the clock never goes backwards).
C22_AuditLogOrderedByTime ==
  \A i, j \in 1..Len(auditLog) :
    i < j => auditLog[i].timestamp[2] <= auditLog[j].timestamp[2]

\* Witness of C22: two entries appended at different clock values.
C22_Witness ==
  /\ Len(auditLog) = 2
  /\ auditLog[1].timestamp[2] < auditLog[2].timestamp[2]
  /\ last.op \in MutatingOps

\* ------------------------------------------------ log specification ----
\* The audit log grown to MaxLog entries by additions and removals, and read
\* back with its sort in between.
MaxLog == 3

LogNext ==
  \/ Len(auditLog) < MaxLog /\ addAllergy /\ UNCHANGED patient
  \/ Len(auditLog) < MaxLog /\ removeAllergy /\ UNCHANGED patient
  \/ Len(auditLog) < MaxLog /\ deletePatient /\ UNCHANGED patient
  \/ Len(auditLog) < MaxLog /\ createClinicalNote /\ UNCHANGED patient
  \/ getAuditLog /\ UNCHANGED patient
  \/ Tick /\ UNCHANGED patient

LogSpec == Init /\ [][LogNext]_vars

\* C23: the audit log is append-only: whatever the facade does (deletePatient,
\* removeAllergy and getAuditLog with its sort included), every entry stays
\* with the same fields at the same position in every later state, and entry
\* i has id i.
C23_AuditLogAppendOnly ==
  /\ [][ /\ Len(auditLog') >= Len(auditLog)
         /\ SubSeq(auditLog', 1, Len(auditLog)) = auditLog ]_vars
  /\ [](\A i \in 1..Len(auditLog) : auditLog[i].id = Num(i))

\* Witness of C23: after a removeAllergy and a deletePatient were audited at
\* different clock values, getAuditLog returned the latest entry first while
\* the stored log still starts with the earliest one.
C23_Witness ==
  /\ Resolved("getAuditLog")
  /\ Len(auditLog) = MaxLog
  /\ \E i \in 1..Len(auditLog) :
       auditLog[i].entityType = "Patient" /\ auditLog[i].action = "DELETE"
  /\ \E i \in 1..Len(auditLog) :
       auditLog[i].entityType = "Allergy" /\ auditLog[i].action = "DELETE"
  /\ auditLog[1].timestamp[2] < auditLog[Len(auditLog)].timestamp[2]
  /\ Len(last.value[2]) = Len(auditLog)
  /\ last.value[2][1] # auditLog[1]

\* ---------------------------------------------- alias specification ----
\* What the facade hands out is a JavaScript reference.  A location
\* <<sequence, index>> names a stored record object; a returned value is
\* either a fresh object (spread, array copy, filter result) or one of the
\* stored record objects themselves.
MaxHandedOut == 2

\* The first position of seq holding record r.
PositionOf(seq, r) ==
  CHOOSE i \in 1..Len(seq) : seq[i] = r /\ \A j \in 1..(i - 1) : seq[j] # r

\* Positions of the records of seq that belong to patient patientId.
OwnedBy(seq, name, patientId) ==
  {<<name, i>> : i \in {k \in 1..Len(seq) : Get(seq[k], "patientId") = patientId}}

\* The stored record objects reachable from the value the last call resolved
\* to: the elements of the array copy of getAllPatients, the object that
\* createPatient pushed, the object that updatePatient / updateTask stored
\* at the index, the object that find returned in getWorkflowById, and the
\* elements of the six filter results of getPatientById (its top-level
\* object is a fresh spread).
HandedOutRecords ==
  IF last.outcome # "resolved" THEN {}
  ELSE CASE last.op = "getAllPatients" ->
              {<<"patients", i>> : i \in 1..Len(patients)}
         [] last.op = "createPatient" -> {<<"patients", Len(patients)>>}
         [] last.op = "updatePatient" ->
              {<<"patients", PositionOf(patients, last.value[2])>>}
         [] last.op = "updateTask" ->
              {<<"tasks", PositionOf(tasks, last.value[2])>>}
         [] last.op = "getWorkflowById" ->
              {<<"workflows", lookup(workflows, last.args[1])>>}
         [] last.op = "getPatientById" ->
              OwnedBy(allergies, "allergies", last.args[1])
                \cup OwnedBy(chronicConditions, "chronicConditions", last.args[1])
                \cup OwnedBy(clinicalNotes, "clinicalNotes", last.args[1])
                \cup OwnedBy(tasks, "tasks", last.args[1])
                \cup OwnedBy(appointments, "appointments", last.args[1])
                \cup OwnedBy(referrals, "referrals", last.args[1])
         [] OTHER -> {}

\* The caller's assignment record.note = 'w'.
sW == Str(<<"w">>)
Written(r) == Spread(r, [note |-> sW])

\* seq after the caller's assignment to the object at location loc.
WriteAt(seq, name, loc) ==
  IF loc[1] = name THEN ReplaceAt(seq, loc[2], Written(seq[loc[2]])) ELSE seq

\* How many stored records carry a caller's assignment.
NumWritten(seq) == Cardinality({i \in 1..Len(seq) : Get(seq[i], "note") = sW})

WrittenRecords ==
  NumWritten(patients) + NumWritten(allergies) + NumWritten(chronicConditions)
    + NumWritten(clinicalNotes) + NumWritten(workflows) + NumWritten(tasks)
    + NumWritten(appointments) + NumWritten(referrals)

\* At most MaxWrites stored records are written to by callers.
MaxWrites == 1

\* The caller that received the last result modifies it: either the
\* top-level array or object it received (a fresh one whenever the result is
\* a copy), or one of the record objects reachable from it.
callerWrites ==
  /\ last.outcome = "resolved"
  /\ last.op \in {"getAllPatients", "createPatient", "updatePatient",
                  "updateTask", "getWorkflowById", "getPatientById"}
  /\ \/ /\ last.op \in {"getAllPatients", "getPatientById"}
        /\ UNCHANGED store
     \/ \E loc \in HandedOutRecords :
          /\ patients' = WriteAt(patients, "patients", loc)
          /\ allergies' = WriteAt(allergies, "allergies", loc)
          /\ chronicConditions' = WriteAt(chronicConditions, "chronicConditions", loc)
          /\ clinicalNotes' = WriteAt(clinicalNotes, "clinicalNotes", loc)
          /\ workflows' = WriteAt(workflows, "workflows", loc)
          /\ tasks' = WriteAt(tasks, "tasks", loc)
          /\ appointments' = WriteAt(appointments, "appointments", loc)
          /\ referrals' = WriteAt(referrals, "referrals", loc)
  /\ last' = Call("callerWrites", << >>, Resolve(Undefined))
  /\ UNCHANGED <<auditLog, now>>

AliasNext ==
  \/ Len(auditLog) < MaxHandedOut /\ createPatient /\ UNCHANGED patient
  \/ Len(auditLog) < MaxHandedOut /\ updatePatient /\ UNCHANGED patient
  \/ Len(auditLog) < MaxHandedOut /\ createTask /\ UNCHANGED patient
  \/ Len(auditLog) < MaxHandedOut /\ updateTask /\ UNCHANGED patient
  \/ getAllPatients /\ UNCHANGED patient
  \/ getPatientById /\ UNCHANGED patient
  \/ getWorkflowById /\ UNCHANGED patient
  \/ WrittenRecords < MaxWrites /\ callerWrites /\ UNCHANGED patient
  \/ Tick /\ UNCHANGED patient

AliasSpec == Init /\ [][AliasNext]_vars

\* C24: no value handed out by the facade aliases internal state: when a
\* caller modifies a result it received, the store's records, as later
\* facade reads see them, are unchanged.
C24_NoAliasing ==
  [][last'.op = "callerWrites" => store' = store]_vars

\* The six list fields of a getPatientById result.
DependentLists ==
  {"allergies", "chronicConditions", "clinicalNotes", "tasks",
   "appointments", "referrals"}

\* The result of the get-by-patient query that matches list field f.
QueryFor(f, patientId) ==
  CASE f = "allergies" -> getAllergiesByPatientResult(patientId)
    [] f = "chronicConditions" -> getChronicConditionsByPatientResult(patientId)
    [] f = "clinicalNotes" -> getClinicalNotesByPatientResult(patientId)
    [] f = "tasks" -> getTasksByPatientResult(patientId)
    [] f = "appointments" -> getAppointmentsByPatientResult(patientId)
    [] f = "referrals" -> getReferralsByPatientResult(patientId)

\* The stored sequence behind list field f.
StoredFor(f) ==
  CASE f = "allergies" -> allergies
    [] f = "chronicConditions" -> chronicConditions
    [] f = "clinicalNotes" -> clinicalNotes
    [] f = "tasks" -> tasks
    [] f = "appointments" -> appointments
    [] f = "referrals" -> referrals

\* C25: for an existing patient id P, getPatientById(P) resolves to the
\* patient's own fields plus six lists, each equal to the result of the
\* matching get-by-patient query for P, holding every stored record of P and
\* no record of another patient.
C25_PatientWithDependents ==
  Resolved("getPatientById") =>
    LET P == last.args[1]
        r == last.value[2]
        p == patients[FirstMatch(patients, P)]
    IN /\ DOMAIN r = DOMAIN p \cup DependentLists
       /\ \A f \in DOMAIN p \ DependentLists : r[f] = p[f]
       /\ \A f \in DependentLists :
            /\ QueryFor(f, P).outcome = "resolved"
            /\ r[f] = QueryFor(f, P).value[2]
            /\ \A k \in 1..Len(r[f]) : Get(r[f][k], "patientId") = P
            /\ Len(r[f]) = Cardinality({i \in 1..Len(StoredFor(f)) :
                                          Get(StoredFor(f)[i], "patientId") = P})

\* Witness of C25: getPatientById('P20250001') returned the seeded allergies
\* of that patient and the one added since, while the store also holds an
\* allergy of another patient.
C25_Witness ==
  /\ Resolved("getPatientById")
  /\ last.args[1] = P20250001
  /\ Len(last.value[2].allergies) = 3
  /\ Len(allergies) = 4
  /\ last.value[2].allergies[3] = allergies[4]

\* Every change of the store or of the audit log is the whole effect of one
\* resolved mutating call: its store mutation and its audit entry arrive in
\* the same step, so no state shows one without the other.
OneCallPerStep ==
  (store' # store \/ auditLog' # auditLog) =>
    /\ now' = now
    /\ last'.op \in MutatingOps
    /\ last'.outcome = "resolved"
    /\ Len(auditLog') = Len(auditLog) + 1
    /\ SubSeq(auditLog', 1, Len(auditLog)) = auditLog
    /\ auditLog'[Len(auditLog')].action = ActionOf(last'.op)

\* A step that is a resolved updatePatient.
UpdatePatientStep ==
  last'.op = "updatePatient" /\ last'.outcome = "resolved" /\ CallStep

\* C26 as stated: each facade operation is one atomic step, so any
\* interleaving of consumers is a serial order of whole calls, and of two
\* updatePatient calls on the same id every field supplied by the later call
\* holds the later call's value.
C26_AtomicLastWriterWins ==
  [][ /\ OneCallPerStep
      /\ UpdatePatientStep =>
           LET k == FirstMatch(patients, last'.args[1])
               updates == Fields(last'.args[2])
           IN \A f \in DOMAIN updates : patients'[k][f] = updates[f]
    ]_vars

\* C26 amended: as above, for every field supplied by the later call other
\* than updatedAt, which holds the time of the later call.
C26_AtomicLastWriterWinsButUpdatedAt ==
  [][ /\ OneCallPerStep
      /\ UpdatePatientStep =>
           LET k == FirstMatch(patients, last'.args[1])
               updates == Fields(last'.args[2])
           IN /\ \A f \in DOMAIN updates \ {"updatedAt"} :
                   patients'[k][f] = updates[f]
              /\ patients'[k].updatedAt = Dt(now)
    ]_vars

\* Witness of C26: two updatePatient calls on 'P20250001' went through one
\* after the other at different clock values; the status is the later
\* call's, the email the earlier call's, updatedAt the time of the later call
\* and not the value the later call supplied.
C26_Witness ==
  /\ Resolved("updatePatient")
  /\ last.args[1] = P20250001
  /\ Len(auditLog) = 2
  /\ \A i \in 1..2 : /\ auditLog[i].action = "UPDATE"
                     /\ auditLog[i].entityId = P20250001
  /\ Get(Fields(last.args[2]), "updatedAt") = Dt(0)
  /\ \E k \in 1..Len(patients) :
       /\ Get(patients[k], "id") = P20250001
       /\ Get(patients[k], "status") = sDeceased
       /\ Get(patients[k], "email") = Str(<<"n", "@", "e">>)
       /\ Get(patients[k], "updatedAt") = Dt(1)

\* The step is a resolved call of op on argument id.
StepIs(op, id) ==
  last'.op = op /\ last'.outcome = "resolved" /\ last'.args[1] = id /\ CallStep

\* How many records of seq belong to patient patientId.
CountOf(seq, patientId) ==
  Cardinality({i \in 1..Len(seq) : Get(seq[i], "patientId") = patientId})

\* The patientId values found in seq.
OwnersIn(seq) == {Get(seq[i], "patientId") : i \in 1..Len(seq)}

\* No record of patient q leaves seq in this step unless it is a
\* deletePatient(q).
StaysUnlessPatientDeleted(seq, seqAfter) ==
  \A q \in OwnersIn(seq) :
    StepIs("deletePatient", q) \/ CountOf(seqAfter, q) >= CountOf(seq, q)

\* C27: a patient leaves the store only through deletePatient (an id that
\* getPatientById resolves keeps resolving over every step that is not a
\* deletePatient of it); an allergy leaves only through removeAllergy on its
\* id or deletePatient on its patient; records of the other dependent types
\* leave only through deletePatient on their patient.
C27_LeavesOnlyByDelete ==
  [][ /\ \A i \in 1..Len(patients) :
           LET P == Get(patients[i], "id") IN
           \/ StepIs("deletePatient", P)
           \/ \E j \in 1..Len(patients') : Get(patients'[j], "id") = P
      /\ \A i \in 1..Len(allergies) :
           \/ StepIs("removeAllergy", Get(allergies[i], "id"))
           \/ StepIs("deletePatient", Get(allergies[i], "patientId"))
           \/ \E j \in 1..Len(allergies') : allergies'[j] = allergies[i]
      /\ StaysUnlessPatientDeleted(chronicConditions, chronicConditions')
      /\ StaysUnlessPatientDeleted(clinicalNotes, clinicalNotes')
      /\ StaysUnlessPatientDeleted(tasks, tasks')
      /\ StaysUnlessPatientDeleted(appointments, appointments')
      /\ StaysUnlessPatientDeleted(referrals, referrals')
    ]_vars

\* seq without its records of patient P, the others in their order.
Without(seq, P) ==
  LET keep == {i \in 1..Len(seq) : Get(seq[i], "patientId") # P}
      nth[n \in 0..Len(seq)] ==
        IF n = 0 THEN 0
        ELSE CHOOSE i \in keep : i > nth[n - 1] /\ \A j \in keep : j > nth[n - 1] => i <= j
  IN [n \in 1..Cardinality(keep) |-> seq[nth[n]]]

\* The frame of the two deleting calls, as a condition on one step.
DeleteFrame ==
  /\ StepIs("deletePatient", last'.args[1]) =>
       LET P == last'.args[1] IN
       /\ \E k \in 1..Len(patients) :
            Get(patients[k], "id") = P /\ patients' = SpliceOne(patients, k)
       /\ allergies' = Without(allergies, P)
       /\ chronicConditions' = Without(chronicConditions, P)
       /\ clinicalNotes' = Without(clinicalNotes, P)
       /\ tasks' = Without(tasks, P)
       /\ appointments' = Without(appointments, P)
       /\ referrals' = Without(referrals, P)
       /\ workflows' = workflows
  /\ StepIs("removeAllergy", last'.args[1]) =>
       LET a == last'.args[1] IN
       /\ \E k \in 1..Len(allergies) :
            /\ Get(allergies[k], "id") = a
            /\ allergies' = SpliceOne(allergies, k)
            /\ \A j \in 1..Len(allergies) : j # k => Get(allergies[j], "id") # a
       /\ UNCHANGED <<patients, chronicConditions, clinicalNotes, workflows,
                      tasks, appointments, referrals>>

\* C28: deletePatient(P) leaves every other patient, every dependent record
\* whose patientId is not P (tasks without one included) and every workflow
\* unchanged and in the same order; removeAllergy(a) removes exactly one
\* allergy, the only one that has id a, and nothing else.
C28_DeleteFrame == [][DeleteFrame]_vars

\* C28 under the premise that allergy ids are unique before the call.
C28_DeleteFrameUniqueIds == [][UniqueIds(allergies) => DeleteFrame]_vars

\* ------------------------------------------------------ usePatient hook ----
\* The hook of one component, created for this patient id.
HookPatientId == P20250001

\* The hook's facade calls are bounded by the audit entries they leave.
MaxHook == 3

\* loadPatient: the state becomes what getPatientById resolved to; a
\* rejection leaves it as it was.
loadPatient ==
  /\ last' = Call("getPatientById", <<HookPatientId>>,
                  getPatientByIdResult(HookPatientId))
  /\ patient' = IF last'.outcome = "resolved" THEN last'.value ELSE patient
  /\ UNCHANGED <<store, auditLog, now>>

\* prev.allergies || []
allergiesOrEmpty(prev) ==
  IF "allergies" \in DOMAIN prev THEN prev.allergies ELSE << >>

\* The hook's addAllergy on a loaded patient: the facade call with
\* {...allergyData, patientId}, then the returned record appended to the
\* local list.
hookAddAllergy ==
  /\ IsObj(patient)
  /\ addAllergy
  /\ Get(Fields(last'.args[1]), "patientId") = HookPatientId
  /\ patient' = Obj(Spread(patient[2],
                    [allergies |-> Append(allergiesOrEmpty(patient[2]),
                                          last'.value[2])]))

\* The hook's removeAllergy on a loaded patient: the facade call, then on
\* success the local list filtered by a.id !== allergyId; a rejection is
\* caught and leaves the local list as it was.
hookRemoveAllergy ==
  /\ IsObj(patient)
  /\ removeAllergy
  /\ patient' =
       IF last'.outcome = "resolved"
       THEN Obj(Spread(patient[2],
              [allergies |-> Filter(patient[2].allergies,
                                    LAMBDA a : Get(a, "id") # last'.args[1])]))
       ELSE patient

HookNext ==
  \/ loadPatient
  \/ Len(auditLog) < MaxHook /\ hookAddAllergy
  \/ Len(auditLog) < MaxHook /\ hookRemoveAllergy
  \/ Tick /\ UNCHANGED patient

HookSpec == Init /\ [][HookNext]_vars

\* C29: for a usePatient hook loaded for patient P, after any sequence of
\* the hook's addAllergy and removeAllergy calls that all report success, the
\* hook's local patient.allergies holds the same records as the store's
\* getAllergiesByPatient(P).
C29_HookAllergiesMatchStore ==
  IsObj(patient) =>
    LET local == patient[2].allergies
        stored == getAllergiesByPatientResult(HookPatientId).value[2]
    IN /\ Len(local) = Len(stored)
       /\ {local[i] : i \in 1..Len(local)} = {stored[i] : i \in 1..Len(stored)}

\* A hook call made while the stored allergy ids are unique keeps the local
\* list and the store in agreement.
HookStepKeepsAgreement ==
  [][ (C29_HookAllergiesMatchStore /\ UniqueIds(allergies))
        => C29_HookAllergiesMatchStore' ]_vars

\* C30: for a record id x returned by a create operation (the string id of
\* a patient, the integer id of any other record), getAuditLog({entityId: x})
\* returns every audit entry recorded for a record with that id, the CREATE
\* entry among them.
C30_AuditLogByReturnedId ==
  ( /\ Resolved("getAuditLog")
    /\ DOMAIN Fields(last.args[1]) = {"entityId"} )
  => LET x == Fields(last.args[1]).entityId
         r == last.value[2]
     IN \A k \in 1..Len(auditLog) :
          auditLog[k].entityId = String(x)
            => \E i \in 1..Len(r) : r[i] = auditLog[k]

====
